---- MODULE Spec2Model ----
(***************************************************************************)
(* A state-machine model of the assuta-rag retrieval pipeline:             *)
(*   - src/vector_store.py      VectorStore (embedding client + index)     *)
(*   - src/rag_system.py        AssutaOncologyRAG (assembler, orchestrator)*)
(*   - src/document_processor.py DocumentProcessor (chunker)               *)
(*                                                                         *)
(* Every modelled function returns a record [raised, val]: raised is TRUE  *)
(* when the Python function would propagate an exception to its caller.    *)
(* A try/except of the source is an IF on the raised field of the call it  *)
(* guards.                                                                 *)
(***************************************************************************)
EXTENDS Integers, Sequences, FiniteSets, TLC

VARIABLES
    live,      \* id of the collection currently stored under collection_name
    handle,    \* handle[inst]: id of the collection object held by instance inst
    recs,      \* records of the live collection, a set keyed by id
    last,      \* outcome of the most recent call on the store / orchestrator
    eTexts,    \* get_embeddings harness: the input list
    eFail,     \* get_embeddings harness: batches on which the provider fails
    eOut,      \* get_embeddings harness: the value returned
    ePc,       \* get_embeddings harness: "start" or "done"
    dText,     \* chunker harness: the raw document text, a sequence of sentences
    dTitle,    \* chunker harness: title argument
    dUrl,      \* chunker harness: url argument
    dChunks,   \* chunker harness: the value returned
    dPc,       \* chunker harness: "start" or "done"
    run,       \* the ask call in progress: its stage and what it holds so far
    job,       \* the rebuild in progress in the build script: its step and data
    fs         \* the files of scraped_data/: the scraped documents, the processed chunks

storeVars == <<live, handle, recs, last>>
embedVars == <<eTexts, eFail, eOut, ePc>>
chunkVars == <<dText, dTitle, dUrl, dChunks, dPc>>
askVars == <<run>>
buildVars == <<job>>
ingestVars == <<fs>>
vars == <<live, handle, recs, last, eTexts, eFail, eOut, ePc,
          dText, dTitle, dUrl, dChunks, dPc, run, job, fs>>

(***************************************************************************)
(* Bounds of the model                                                     *)
(***************************************************************************)
MaxClears == 1        \* clear_collection calls explored
MaxChunks == 2        \* longest chunk list handed to add_documents
MaxTexts == 201       \* longest text list handed to get_embeddings
MaxSentences == 4     \* longest document handed to split_into_chunks
MaxIndexed == 6       \* most chunks in the index the application serves from

(***************************************************************************)
(* Program constants                                                       *)
(***************************************************************************)
EmbDim == 1536            \* length of the substituted zero vector
BatchSize == 100          \* batch_size of get_embeddings and add_documents
DefaultNResults == 5      \* n_results default of retrieve_relevant_content
max_chunk_size == 500     \* DocumentProcessor.max_chunk_size, tokens
chunk_overlap == 50       \* DocumentProcessor.chunk_overlap, tokens
OverlapWords == 20        \* words[-20:]
MinTextLen == 50          \* len(text.strip()) < 50

Min(a, b) == IF a < b THEN a ELSE b

(***************************************************************************)
(* Texts.  A text (chunk content or query) is a record: id identifies the  *)
(* string, len is its length in characters, nl says whether it contains a  *)
(* newline and pad how many whitespace characters it starts/ends with.     *)
(***************************************************************************)
Text(i, l, n, p) == [id |-> i, len |-> l, nl |-> n, pad |-> p]

Queries == { Text(1, 10, FALSE, 0), Text(3, 12, FALSE, 0) }

\* the VectorStore instances open on the collection: the one of the build
\* script (build_vector_store), which adds and clears, and the one inside the
\* AssutaOncologyRAG of the serving application, which only reads
Builder == "builder"
Insts == { Builder, "app" }

(***************************************************************************)
(* Embedding client: VectorStore.get_embeddings                            *)
(***************************************************************************)
\* a variant of the substitute that forgets the dimensionality: [0.0]
ZeroVectorShort == [dim |-> 1, x |-> 0]

\* [[0.0] * 1536]: a vector is [dim, x], standing for (x, 0, ..., 0)
ZeroVector == [dim |-> EmbDim, x |-> 0]

\* item.embedding of the provider's response for one text
ProviderVector(t) == [dim |-> EmbDim, x |-> t.id]

\* self.client.embeddings.create(input=batch, ...) and the list comprehension
embeddings_create(batch, fails) ==
    IF fails THEN [raised |-> TRUE, val |-> <<>>]
    ELSE [raised |-> FALSE, val |-> [j \in 1..Len(batch) |-> ProviderVector(batch[j])]]

\* a variant whose except branch substitutes nothing for the failed batch
embed_batch_skip(batch, fails) ==
    LET r == embeddings_create(batch, fails)
    IN IF r.raised THEN [raised |-> FALSE, val |-> <<>>]
       ELSE r

\* body of the for loop: try the provider, on failure extend with zero vectors
embed_batch(batch, fails) ==
    LET r == embeddings_create(batch, fails)
    IN IF r.raised
       THEN [raised |-> FALSE, val |-> [j \in 1..Len(batch) |-> ZeroVector]]
       ELSE r

RECURSIVE embed_from(_, _, _, _)
\* for i in range(0, len(texts), batch_size), i is the 0-based offset
embed_from(texts, failed, i, acc) ==
    IF i >= Len(texts) THEN [raised |-> FALSE, val |-> acc]
    ELSE LET batch == SubSeq(texts, i + 1, Min(i + BatchSize, Len(texts)))
             r == embed_batch(batch, ((i \div BatchSize) + 1) \in failed)
         IN IF r.raised THEN [raised |-> TRUE, val |-> acc]
            ELSE embed_from(texts, failed, i + BatchSize, acc \o r.val)

get_embeddings(texts, failed) == embed_from(texts, failed, 0, <<>>)

(***************************************************************************)
(* Vector index: the ChromaDB collection behind VectorStore                *)
(***************************************************************************)
\* a chunk dict as produced by the chunker, content abstracted to a Text
Chunk(c, n) == [content |-> c, title |-> "T", url |-> "U", chunk_id |-> n, tokens |-> c.len]

\* the chunk lists handed to add_documents: the first n chunks of a document
\* set, for two document sets that differ in every position
ChunkAt(base, i) ==
    LET c == IF (i + base) % 2 = 0 THEN Text(1, 40, TRUE, 0) ELSE Text(2, 200, FALSE, 1)
    IN Chunk(c, i - 1)

ChunkLists == { [i \in 1..n |-> ChunkAt(base, i)] : n \in 0..MaxChunks, base \in {0, 1} }

\* squared L2, the metric of a collection created without hnsw:space
Distance(a, b) == (a.x - b.x) * (a.x - b.x)

\* ids = [f"chunk_{i}" for i in range(len(chunks))]
chunk_ids(chunks) == [i \in 1..Len(chunks) |-> <<"chunk", i - 1>>]

\* metadatas built by the enumerate loop
chunk_metadatas(chunks) ==
    [i \in 1..Len(chunks) |->
        [title |-> chunks[i].title, url |-> chunks[i].url,
         chunk_id |-> chunks[i].chunk_id, tokens |-> chunks[i].tokens]]

\* self.collection.add(ids, embeddings, documents, metadatas): the call raises
\* when the handle no longer names a stored collection or the storage fails;
\* otherwise records whose id is not yet present are inserted and records
\* whose id already exists are left as they are
collection_add(coll, inst, ids, embs, texts, metas, fails) ==
    IF handle[inst] # live \/ fails THEN [raised |-> TRUE, val |-> coll]
    ELSE [raised |-> FALSE,
          val |-> coll \cup { [id |-> ids[j], embedding |-> embs[j],
                                document |-> texts[j], metadata |-> metas[j]]
                              : j \in { k \in 1..Len(ids) :
                                          \A r \in coll : r.id # ids[k] } }]

RECURSIVE add_from_stop(_, _, _, _, _, _, _, _)
\* a variant that gives up at the first batch whose insert fails
add_from_stop(coll, inst, ids, embs, texts, metas, i, addFailed) ==
    IF i >= Len(ids) THEN coll
    ELSE LET e == Min(i + BatchSize, Len(ids))
             r == collection_add(coll, inst, SubSeq(ids, i + 1, e), SubSeq(embs, i + 1, e),
                                 SubSeq(texts, i + 1, e), SubSeq(metas, i + 1, e),
                                 ((i \div BatchSize) + 1) \in addFailed)
         IN IF r.raised THEN coll
            ELSE add_from_stop(r.val, inst, ids, embs, texts, metas, i + BatchSize, addFailed)

RECURSIVE add_from(_, _, _, _, _, _, _, _)
\* for i in range(0, len(chunks), batch_size): try collection.add, except print
add_from(coll, inst, ids, embs, texts, metas, i, addFailed) ==
    IF i >= Len(ids) THEN coll
    ELSE LET e == Min(i + BatchSize, Len(ids))
             r == collection_add(coll, inst, SubSeq(ids, i + 1, e), SubSeq(embs, i + 1, e),
                                 SubSeq(texts, i + 1, e), SubSeq(metas, i + 1, e),
                                 ((i \div BatchSize) + 1) \in addFailed)
         IN add_from(r.val, inst, ids, embs, texts, metas, i + BatchSize, addFailed)

\* VectorStore.add_documents; val is the collection after the call
add_documents(inst, chunks, embFailed, addFailed) ==
    IF chunks = <<>> THEN [raised |-> FALSE, val |-> recs, embedCalls |-> 0]
    ELSE LET texts == [i \in 1..Len(chunks) |-> chunks[i].content]
             e == get_embeddings(texts, embFailed)
         IN IF e.raised THEN [raised |-> TRUE, val |-> recs, embedCalls |-> 1]
            ELSE [raised |-> FALSE,
                  val |-> add_from(recs, inst, chunk_ids(chunks), e.val, texts,
                                   chunk_metadatas(chunks), 0, addFailed),
                  embedCalls |-> 1]

\* the order in which the index reports records: by distance, ties by id
Nearer(a, b, qe) ==
    \/ Distance(a.embedding, qe) < Distance(b.embedding, qe)
    \/ /\ Distance(a.embedding, qe) = Distance(b.embedding, qe)
       /\ a.id[2] <= b.id[2]

RECURSIVE NearestK(_, _, _)
NearestK(coll, qe, k) ==
    IF k = 0 \/ coll = {} THEN <<>>
    ELSE LET m == CHOOSE r \in coll : \A o \in coll : Nearer(r, o, qe)
         IN <<m>> \o NearestK(coll \ {m}, qe, k - 1)

\* self.collection.query(query_embeddings=[e], n_results=k, include=[...])
collection_query(inst, qe, k, fails) ==
    IF handle[inst] # live \/ fails THEN [raised |-> TRUE, val |-> <<>>]
    ELSE [raised |-> FALSE, val |-> NearestK(recs, qe, k)]

\* a variant of the formatting loop that lists the rows back to front
format_results_reversed(found, qe) ==
    [i \in 1..Len(found) |->
        [content |-> found[Len(found) + 1 - i].document,
         metadata |-> found[Len(found) + 1 - i].metadata,
         distance |-> Distance(found[Len(found) + 1 - i].embedding, qe),
         relevance_score |-> 1 - Distance(found[Len(found) + 1 - i].embedding, qe)]]

\* the formatting loop of search
format_results(found, qe) ==
    [i \in 1..Len(found) |->
        [content |-> found[i].document,
         metadata |-> found[i].metadata,
         distance |-> Distance(found[i].embedding, qe),
         relevance_score |-> 1 - Distance(found[i].embedding, qe)]]

\* a variant of search without the try/except
search_unguarded(inst, query, k, embFail, queryFail) ==
    LET e == get_embeddings(<<query>>, IF embFail THEN {1} ELSE {})
        qe == e.val[1]
        r == IF e.raised THEN [raised |-> TRUE, val |-> <<>>]
             ELSE collection_query(inst, qe, k, queryFail)
    IN IF r.raised THEN [raised |-> TRUE, val |-> <<>>]
       ELSE [raised |-> FALSE, val |-> format_results(r.val, qe)]

\* VectorStore.search: everything runs inside one try, except returns []
search(inst, query, k, embFail, queryFail) ==
    LET e == get_embeddings(<<query>>, IF embFail THEN {1} ELSE {})
        qe == e.val[1]
        r == IF e.raised THEN [raised |-> TRUE, val |-> <<>>]
             ELSE collection_query(inst, qe, k, queryFail)
    IN IF r.raised THEN [raised |-> FALSE, val |-> <<>>]
       ELSE [raised |-> FALSE, val |-> format_results(r.val, qe)]

\* VectorStore.get_collection_stats
get_collection_stats(inst, fails) ==
    IF handle[inst] # live \/ fails
    THEN [raised |-> FALSE, val |-> [total_documents |-> 0, collection_name |-> "assuta_oncology"]]
    ELSE [raised |-> FALSE,
          val |-> [total_documents |-> Cardinality(recs), collection_name |-> "assuta_oncology"]]

\* a variant of clear_collection that opens a new handle on the collection
\* without deleting what it holds
clear_collection_keep(inst, delFail, createFail) ==
    LET fresh == 1 + live
    IN IF live = 0 \/ delFail
       THEN [raised |-> FALSE, val |-> <<live, handle[inst], recs>>]
       ELSE IF createFail
            THEN [raised |-> FALSE, val |-> <<0, handle[inst], {}>>]
            ELSE [raised |-> FALSE, val |-> <<fresh, fresh, recs>>]

\* VectorStore.clear_collection: delete_collection(name) then create_collection(name),
\* both inside one try.  val is <<live', handle[inst]', recs'>>.
clear_collection(inst, delFail, createFail) ==
    LET fresh == 1 + live
    IN IF live = 0 \/ delFail
       THEN [raised |-> FALSE, val |-> <<live, handle[inst], recs>>]
       ELSE IF createFail
            THEN [raised |-> FALSE, val |-> <<0, handle[inst], {}>>]
            ELSE [raised |-> FALSE, val |-> <<fresh, fresh, {}>>]

(***************************************************************************)
(* Retriever, context assembler, orchestrator: AssutaOncologyRAG           *)
(***************************************************************************)
GenErrors == { "timeout", "rate_limit" }

\* AssutaOncologyRAG.retrieve_relevant_content
retrieve_relevant_content(inst, query, n, embFail, queryFail) ==
    search(inst, query, n, embFail, queryFail)

\* a variant of the excerpt that appends the marker without cutting
content_excerpt_no_cut(content) ==
    [of |-> content.id,
     flattened |-> content.nl,
     stripped |-> content.pad,
     chars |-> IF content.len - content.pad > 150
               THEN content.len - content.pad + 3 ELSE content.len - content.pad,
     ellipsis |-> content.len - content.pad > 150]

\* a variant of the excerpt that omits .strip()
content_excerpt_no_strip(content) ==
    [of |-> content.id,
     flattened |-> content.nl,
     stripped |-> 0,
     chars |-> IF content.len > 150 THEN 153 ELSE content.len,
     ellipsis |-> content.len > 150]

\* content.replace('\n', ' ').strip(), cut to 150 characters plus "..."
content_excerpt(content) ==
    [of |-> content.id,
     flattened |-> content.nl,
     stripped |-> content.pad,
     chars |-> IF content.len - content.pad > 150 THEN 153 ELSE content.len - content.pad,
     ellipsis |-> content.len - content.pad > 150]

\* the string "לא נמצא מידע רלוונטי במאגר המסמכים של אסותא."
Sentinel == [kind |-> "sentinel", chars |-> 44, entries |-> <<>>]

\* a variant of format_context without the "if not retrieved_docs" return
format_context_no_sentinel(retrieved_docs) ==
    [raised |-> FALSE,
     val |-> << [kind |-> "block",
                 entries |-> [i \in 1..Len(retrieved_docs) |->
                                [doc |-> i,
                                 score |-> retrieved_docs[i].relevance_score,
                                 title |-> retrieved_docs[i].metadata.title,
                                 content |-> retrieved_docs[i].content]]],
                [i \in 1..Len(retrieved_docs) |->
                   [number |-> i,
                    title |-> retrieved_docs[i].metadata.title,
                    url |-> retrieved_docs[i].metadata.url,
                    score |-> retrieved_docs[i].relevance_score,
                    excerpt |-> content_excerpt(retrieved_docs[i].content),
                    full_content |-> retrieved_docs[i].content]] >>]

\* a variant of format_context that builds the citation list back to front
format_context_reversed(retrieved_docs) ==
    IF retrieved_docs = <<>> THEN [raised |-> FALSE, val |-> <<Sentinel, <<>> >>]
    ELSE LET n == Len(retrieved_docs)
         IN [raised |-> FALSE,
             val |-> << [kind |-> "block",
                         entries |-> [i \in 1..n |->
                                        [doc |-> i,
                                         score |-> retrieved_docs[i].relevance_score,
                                         title |-> retrieved_docs[i].metadata.title,
                                         content |-> retrieved_docs[i].content]]],
                        [i \in 1..n |->
                           [number |-> i,
                            title |-> retrieved_docs[n + 1 - i].metadata.title,
                            url |-> retrieved_docs[n + 1 - i].metadata.url,
                            score |-> retrieved_docs[n + 1 - i].relevance_score,
                            excerpt |-> content_excerpt(retrieved_docs[n + 1 - i].content),
                            full_content |-> retrieved_docs[n + 1 - i].content]] >>]

\* AssutaOncologyRAG.format_context; val is <<context, citations>>.  Scores are
\* integers in this model, so the two-decimal rendering of the score keeps them.
format_context(retrieved_docs) ==
    IF retrieved_docs = <<>> THEN [raised |-> FALSE, val |-> <<Sentinel, <<>> >>]
    ELSE [raised |-> FALSE,
          val |-> << [kind |-> "block",
                      entries |-> [i \in 1..Len(retrieved_docs) |->
                                     [doc |-> i,
                                      score |-> retrieved_docs[i].relevance_score,
                                      title |-> retrieved_docs[i].metadata.title,
                                      content |-> retrieved_docs[i].content]]],
                     [i \in 1..Len(retrieved_docs) |->
                        [number |-> i,
                         title |-> retrieved_docs[i].metadata.title,
                         url |-> retrieved_docs[i].metadata.url,
                         score |-> retrieved_docs[i].relevance_score,
                         excerpt |-> content_excerpt(retrieved_docs[i].content),
                         full_content |-> retrieved_docs[i].content]] >>]

\* self.client.chat.completions.create(...) and response.choices[0].message.content
chat_completions_create(query, context, genFail, err) ==
    IF genFail THEN [raised |-> TRUE, val |-> err]
    ELSE [raised |-> FALSE, val |-> [kind |-> "completion", query |-> query, context |-> context]]

\* a variant of generate_response without the try/except
generate_response_unguarded(query, context, genFail, err) ==
    chat_completions_create(query, context, genFail, err)

\* AssutaOncologyRAG.generate_response: the except branch returns the apology
\* f-string, which embeds str(e) and the advice to turn to the medical staff
generate_response(query, context, genFail, err) ==
    LET r == chat_completions_create(query, context, genFail, err)
    IN IF r.raised
       THEN [raised |-> FALSE, val |-> [kind |-> "apology", detail |-> r.val, fallback |-> TRUE]]
       ELSE r

\* a variant of ask that attaches the debug fields whatever the flag says
ask_debug_always(inst, query, debug, embFail, queryFail, genFail, err) ==
    LET r == retrieve_relevant_content(inst, query, DefaultNResults, embFail, queryFail)
        f == format_context(r.val)
        g == generate_response(query, f.val[1], genFail, err)
    IN IF r.raised \/ f.raised \/ g.raised THEN [raised |-> TRUE, val |-> <<>>]
       ELSE [raised |-> FALSE,
             val |-> [query |-> query, response |-> g.val,
                      sources_used |-> Len(r.val), citations |-> f.val[2],
                      retrieved_documents |-> r.val, context |-> f.val[1]]]

\* a variant of ask that answers with the sentinel itself, without calling
\* the generation model, when nothing was retrieved
ask_short_circuit(inst, query, debug, embFail, queryFail, genFail, err) ==
    LET r == retrieve_relevant_content(inst, query, DefaultNResults, embFail, queryFail)
        f == format_context(r.val)
        g == IF r.val = <<>> THEN [raised |-> FALSE, val |-> f.val[1]]
             ELSE generate_response(query, f.val[1], genFail, err)
        result == [query |-> query, response |-> g.val,
                   sources_used |-> Len(r.val), citations |-> f.val[2]]
    IN IF r.raised \/ f.raised \/ g.raised THEN [raised |-> TRUE, val |-> <<>>]
       ELSE IF debug
            THEN [raised |-> FALSE,
                  val |-> [query |-> query, response |-> g.val,
                           sources_used |-> Len(r.val), citations |-> f.val[2],
                           retrieved_documents |-> r.val, context |-> f.val[1]]]
            ELSE [raised |-> FALSE, val |-> result]

\* AssutaOncologyRAG.ask
ask(inst, query, debug, embFail, queryFail, genFail, err) ==
    LET r == retrieve_relevant_content(inst, query, DefaultNResults, embFail, queryFail)
        f == format_context(r.val)
        g == generate_response(query, f.val[1], genFail, err)
        result == [query |-> query, response |-> g.val,
                   sources_used |-> Len(r.val), citations |-> f.val[2]]
    IN IF r.raised \/ f.raised \/ g.raised THEN [raised |-> TRUE, val |-> <<>>]
       ELSE IF debug
            THEN [raised |-> FALSE,
                  val |-> [query |-> query, response |-> g.val,
                           sources_used |-> Len(r.val), citations |-> f.val[2],
                           retrieved_documents |-> r.val, context |-> f.val[1]]]
            ELSE [raised |-> FALSE, val |-> result]

\* a variant of get_system_stats that tests total_documents >= 0
get_system_stats_ready_at_zero(inst, fails) ==
    LET vector_stats == get_collection_stats(inst, fails).val
    IN [raised |-> FALSE,
        val |-> [vector_store_documents |-> vector_stats.total_documents,
                 collection_name |-> vector_stats.collection_name,
                 system_status |-> IF vector_stats.total_documents >= 0
                                   THEN "ready" ELSE "needs_data"]]

\* AssutaOncologyRAG.get_system_stats
get_system_stats(inst, fails) ==
    LET vector_stats == get_collection_stats(inst, fails).val
    IN [raised |-> FALSE,
        val |-> [vector_store_documents |-> vector_stats.total_documents,
                 collection_name |-> vector_stats.collection_name,
                 system_status |-> IF vector_stats.total_documents > 0
                                   THEN "ready" ELSE "needs_data"]]

(***************************************************************************)
(* The store and the orchestrator as a state machine.  Two VectorStore     *)
(* instances are open on the collection; each call is one action; every    *)
(* call of an external service may fail.                                   *)
(***************************************************************************)
StoreInit ==
    /\ live = 1
    /\ handle = [i \in Insts |-> 1]
    /\ recs = {}
    /\ last = [op |-> "init"]

AddDocuments(inst) ==
    \E chunks \in ChunkLists, embFail \in BOOLEAN, addFail \in BOOLEAN :
        LET r == add_documents(inst, chunks, IF embFail THEN {1} ELSE {},
                               IF addFail THEN {1} ELSE {})
        IN /\ recs' = r.val
           /\ last' = [op |-> "add", inst |-> inst, chunks |-> chunks,
                       embFail |-> embFail, addFail |-> addFail,
                       stale |-> handle[inst] # live,
                       repeat |-> last.op = "add" /\ last.chunks = chunks
                                  /\ ~last.stale /\ ~last.addFail,
                       raised |-> r.raised, embedCalls |-> r.embedCalls,
                       before |-> Cardinality(recs), after |-> Cardinality(r.val),
                       afterClear |-> last.op = "clear" /\ last.cleared,
                       clearedFrom |-> IF last.op = "clear" THEN last.before ELSE 0]
           /\ UNCHANGED <<live, handle>>

Search(inst) ==
    \E query \in Queries, k \in {1, DefaultNResults}, embFail \in BOOLEAN, queryFail \in BOOLEAN :
        LET r == search(inst, query, k, embFail, queryFail)
        IN /\ last' = [op |-> "search", inst |-> inst, query |-> query, k |-> k,
                       embFail |-> embFail, queryFail |-> queryFail,
                       stale |-> handle[inst] # live,
                       raised |-> r.raised, ret |-> r.val]
           /\ UNCHANGED <<live, handle, recs>>

Ask(inst) ==
    \E query \in Queries, debug \in BOOLEAN, embFail \in BOOLEAN, queryFail \in BOOLEAN,
       genFail \in BOOLEAN :
      \E err \in (IF genFail THEN GenErrors ELSE {"none"}) :
        LET r == ask(inst, query, debug, embFail, queryFail, genFail, err)
        IN /\ last' = [op |-> "ask", inst |-> inst, query |-> query, debug |-> debug,
                       embFail |-> embFail, queryFail |-> queryFail,
                       genFail |-> genFail, err |-> err,
                       raised |-> r.raised, ret |-> r.val]
           /\ UNCHANGED <<live, handle, recs>>

GetCollectionStats(inst) ==
    \E fails \in BOOLEAN :
        LET r == get_collection_stats(inst, fails)
        IN /\ last' = [op |-> "stats", inst |-> inst, fails |-> fails,
                       stale |-> handle[inst] # live,
                       raised |-> r.raised, ret |-> r.val]
           /\ UNCHANGED <<live, handle, recs>>

GetSystemStats(inst) ==
    \E fails \in BOOLEAN :
        LET r == get_system_stats(inst, fails)
        IN /\ last' = [op |-> "system_stats", inst |-> inst, fails |-> fails,
                       stale |-> handle[inst] # live,
                       raised |-> r.raised, ret |-> r.val]
           /\ UNCHANGED <<live, handle, recs>>

ClearCollection(inst) ==
    /\ live <= MaxClears
    /\ \E delFail \in BOOLEAN, createFail \in BOOLEAN :
        LET r == clear_collection(inst, delFail, createFail)
        IN /\ live' = r.val[1]
           /\ handle' = [handle EXCEPT ![inst] = r.val[2]]
           /\ recs' = r.val[3]
           /\ last' = [op |-> "clear", inst |-> inst, delFail |-> delFail,
                       createFail |-> createFail, raised |-> r.raised,
                       before |-> Cardinality(recs),
                       cleared |-> live # 0 /\ ~delFail /\ ~createFail]

\* calls on the vector store
StoreNext ==
    /\ \/ AddDocuments(Builder)
       \/ ClearCollection(Builder)
       \/ \E inst \in Insts : Search(inst)
       \/ \E inst \in Insts : GetCollectionStats(inst)
    /\ UNCHANGED embedVars
    /\ UNCHANGED chunkVars
    /\ UNCHANGED askVars
    /\ UNCHANGED buildVars
    /\ UNCHANGED ingestVars

\* calls on the orchestrator, over an index that is built and cleared meanwhile
AskNext ==
    /\ \/ AddDocuments(Builder)
       \/ ClearCollection(Builder)
       \/ \E inst \in Insts : Ask(inst)
       \/ \E inst \in Insts : GetSystemStats(inst)
    /\ UNCHANGED embedVars
    /\ UNCHANGED chunkVars
    /\ UNCHANGED askVars
    /\ UNCHANGED buildVars
    /\ UNCHANGED ingestVars

(***************************************************************************)
(* The serving application over an index the build script has filled: the  *)
(* index holds the first n chunks of a corpus whose chunks differ in       *)
(* title, url and content.  The contents sit on both sides of the excerpt  *)
(* limit, with and without newlines and surrounding whitespace.            *)
(***************************************************************************)
IndexedText(i) ==
    IF i = 1 THEN Text(1, 40, TRUE, 0)
    ELSE IF i = 2 THEN Text(2, 200, FALSE, 1)
    ELSE IF i = 3 THEN Text(3, 150, FALSE, 0)
    ELSE IF i = 4 THEN Text(4, 151, FALSE, 0)
    ELSE IF i = 5 THEN Text(5, 100, TRUE, 2)
    ELSE Text(i, 151, FALSE, 1)

IndexedChunk(i) ==
    [content |-> IndexedText(i), title |-> <<"T", i>>, url |-> <<"U", i>>,
     chunk_id |-> i - 1, tokens |-> IndexedText(i).len]

IndexedChunks(n) == [i \in 1..n |-> IndexedChunk(i)]

\* the collection after add_documents(IndexedChunks(n)) on a new collection
Built(n) ==
    LET chunks == IndexedChunks(n)
        texts == [i \in 1..n |-> chunks[i].content]
    IN add_from({}, Builder, chunk_ids(chunks), get_embeddings(texts, {}).val,
                texts, chunk_metadatas(chunks), 0, {})

ServeInit ==
    /\ live = 1
    /\ handle = [i \in Insts |-> 1]
    /\ \E n \in 0..MaxIndexed : recs = Built(n)
    /\ last = [op |-> "init"]

\* calls of the serving application; the build script may clear the index meanwhile
ServeNext ==
    /\ \/ ClearCollection(Builder)
       \/ \E inst \in Insts : Ask(inst)
       \/ \E inst \in Insts : GetSystemStats(inst)
    /\ UNCHANGED embedVars
    /\ UNCHANGED chunkVars
    /\ UNCHANGED askVars
    /\ UNCHANGED buildVars
    /\ UNCHANGED ingestVars

(***************************************************************************)
(* Searches, direct and through the retriever, over a filled index.        *)
(***************************************************************************)
RetrieveRelevantContent(inst) ==
    \E query \in Queries, n \in {1, DefaultNResults}, embFail \in BOOLEAN, queryFail \in BOOLEAN :
        LET r == retrieve_relevant_content(inst, query, n, embFail, queryFail)
        IN /\ last' = [op |-> "retrieve", inst |-> inst, query |-> query, k |-> n,
                       embFail |-> embFail, queryFail |-> queryFail,
                       stale |-> handle[inst] # live,
                       raised |-> r.raised, ret |-> r.val]
           /\ UNCHANGED <<live, handle, recs>>

SearchNext ==
    /\ \/ ClearCollection(Builder)
       \/ \E inst \in Insts : Search(inst)
       \/ \E inst \in Insts : RetrieveRelevantContent(inst)
    /\ UNCHANGED embedVars
    /\ UNCHANGED chunkVars
    /\ UNCHANGED askVars
    /\ UNCHANGED buildVars
    /\ UNCHANGED ingestVars

(***************************************************************************)
(* build_vector_store step by step, next to a serving application that     *)
(* searches meanwhile.  Each call the build script makes on the collection *)
(* is one action: the delete and the create of clear_collection, and every *)
(* batch of add_documents.  job.before is what the index held when the     *)
(* build started, job.inserted what the build has inserted so far.         *)
(***************************************************************************)
IdleJob == [pc |-> "idle"]

BuildIdle == job = IdleJob

\* the index before the build: empty, or filled by an earlier build
RebuildInit ==
    /\ live = 1
    /\ handle = [i \in Insts |-> 1]
    /\ \E n \in {0, MaxChunks} : recs = Built(n)
    /\ last = [op |-> "init"]

\* the chunk lists of the build: none, one chunk, one more than a batch
RebuildSizes == { 0, 1, BatchSize + 1 }

RevisedChunk(i) == [IndexedChunk(i) EXCEPT !.title = <<"R", i>>]

RebuildLists == { [i \in 1..n |-> RevisedChunk(i)] : n \in RebuildSizes }

\* the id of the next collection object created: one no handle has held
FreshId ==
    LET ids == {live} \cup { handle[i] : i \in Insts }
    IN 1 + (CHOOSE m \in ids : \A o \in ids : o <= m)

\* VectorStore.__init__: get_collection(name), on failure create_collection(name);
\* the value is <<live', handle[inst]', recs'>>
open_store(inst) ==
    IF live # 0 THEN <<live, live, recs>> ELSE <<FreshId, FreshId, {}>>

\* vector_store = VectorStore(); stats = ...; "Clear and rebuild? (y/n)": y
RebuildBegin ==
    /\ job.pc = "idle"
    /\ FreshId <= MaxClears + 1
    /\ \E chunks \in RebuildLists, statsFail \in BOOLEAN :
          LET o == open_store(Builder)
          IN /\ live' = o[1]
             /\ handle' = [handle EXCEPT ![Builder] = o[2]]
             /\ recs' = o[3]
             /\ job' = [pc |-> IF ~statsFail /\ Cardinality(o[3]) > 0
                               THEN "delete" ELSE "embed",
                        chunks |-> chunks, embs |-> <<>>, i |-> 0,
                        before |-> o[3], inserted |-> {}]
             /\ last' = [op |-> "rebuild", step |-> "begin"]

\* clear_collection: self.client.delete_collection(self.collection_name)
RebuildDelete ==
    /\ job.pc = "delete"
    /\ \E delFail \in BOOLEAN :
          IF live = 0 \/ delFail
          THEN /\ job' = [job EXCEPT !.pc = "embed"]
               /\ UNCHANGED <<live, handle, recs>>
          ELSE /\ job' = [job EXCEPT !.pc = "create"]
               /\ live' = 0
               /\ recs' = {}
               /\ UNCHANGED handle
    /\ last' = [op |-> "rebuild", step |-> "delete"]

\* clear_collection: self.collection = self.client.create_collection(...)
RebuildCreate ==
    /\ job.pc = "create"
    /\ \E createFail \in BOOLEAN :
          IF live # 0 \/ createFail
          THEN UNCHANGED <<live, handle, recs>>
          ELSE /\ live' = FreshId
               /\ handle' = [handle EXCEPT ![Builder] = FreshId]
               /\ UNCHANGED recs
    /\ job' = [job EXCEPT !.pc = "embed"]
    /\ last' = [op |-> "rebuild", step |-> "create"]

\* add_documents: the early return and embeddings = self.get_embeddings(texts).
\* get_embeddings never raises; the zero vectors of a failed batch are
\* explored by AddDocuments, here the provider answers.
RebuildEmbed ==
    /\ job.pc = "embed"
    /\ IF job.chunks = <<>>
       THEN job' = [job EXCEPT !.pc = "done"]
       ELSE LET texts == [i \in 1..Len(job.chunks) |-> job.chunks[i].content]
                e == get_embeddings(texts, {})
            IN job' = [job EXCEPT !.pc = "add", !.embs = e.val]
    /\ last' = [op |-> "rebuild", step |-> "embed"]
    /\ UNCHANGED <<live, handle, recs>>

\* add_documents: one pass of the batch loop, try self.collection.add(...)
RebuildAdd ==
    /\ job.pc = "add"
    /\ \E addFail \in BOOLEAN :
          LET e == Min(job.i + BatchSize, Len(job.chunks))
              texts == [i \in 1..Len(job.chunks) |-> job.chunks[i].content]
              r == collection_add(recs, Builder,
                                  SubSeq(chunk_ids(job.chunks), job.i + 1, e),
                                  SubSeq(job.embs, job.i + 1, e),
                                  SubSeq(texts, job.i + 1, e),
                                  SubSeq(chunk_metadatas(job.chunks), job.i + 1, e),
                                  addFail)
          IN /\ recs' = r.val
             /\ job' = [job EXCEPT !.pc = IF e >= Len(job.chunks) THEN "done" ELSE "add",
                                    !.i = e,
                                    !.inserted = @ \cup (r.val \ recs)]
    /\ last' = [op |-> "rebuild", step |-> "add"]
    /\ UNCHANGED <<live, handle>>

\* final_stats = ...; return vector_store
RebuildEnd ==
    /\ job.pc = "done"
    /\ job' = IdleJob
    /\ last' = [op |-> "rebuild", step |-> "end"]
    /\ UNCHANGED <<live, handle, recs>>

\* the serving application is started again: AssutaOncologyRAG() opens the store
AppOpen ==
    /\ FreshId <= MaxClears + 1
    /\ LET o == open_store("app")
       IN /\ live' = o[1]
          /\ handle' = [handle EXCEPT !["app"] = o[2]]
          /\ recs' = o[3]
    /\ last' = [op |-> "open", inst |-> "app"]
    /\ UNCHANGED job

RebuildNext ==
    /\ \/ RebuildBegin
       \/ RebuildDelete
       \/ RebuildCreate
       \/ RebuildEmbed
       \/ RebuildAdd
       \/ RebuildEnd
       \/ AppOpen
       \/ Search("app") /\ UNCHANGED job
    /\ UNCHANGED embedVars
    /\ UNCHANGED chunkVars
    /\ UNCHANGED askVars
    /\ UNCHANGED ingestVars

(***************************************************************************)
(* ask step by step: one action for the entry of the call and one for each *)
(* of its statements, so that the index can change between the stages.     *)
(* run.calls counts the calls made on the retriever, the assembler and the *)
(* generation step; run.trace lists the stages entered.                     *)
(***************************************************************************)
Stages == << "Retrieving", "Assembling", "Generating", "Done" >>

NoCalls == [retrieve |-> 0, assemble |-> 0, generate |-> 0]

IdleRun == [stage |-> "Idle", trace |-> <<>>, calls |-> NoCalls]

AskIdle == run = IdleRun

\* a variant of the sequencing that calls the generation model again when
\* the call has failed
next_stage_retry(stage, failed) ==
    IF stage = "Retrieving" THEN "Assembling"
    ELSE IF stage = "Assembling" THEN "Generating"
    ELSE IF stage = "Generating" THEN (IF failed THEN "Generating" ELSE "Done")
    ELSE "Idle"

\* the statement that follows the one of the given stage in the body of ask:
\* the body is straight-line code, whatever the call of the stage returned
next_stage(stage, failed) ==
    IF stage = "Retrieving" THEN "Assembling"
    ELSE IF stage = "Assembling" THEN "Generating"
    ELSE IF stage = "Generating" THEN "Done"
    ELSE "Idle"

\* the stage reached and the trace after the statement of run.stage
Advance(failed) ==
    LET n == next_stage(run.stage, failed)
    IN [stage |-> n, trace |-> IF n = "Idle" THEN <<>> ELSE Append(run.trace, n)]

\* rag.ask(query, debug) is entered
AskCall(inst) ==
    /\ run.stage = "Idle"
    /\ \E query \in Queries, debug \in BOOLEAN :
          run' = [stage |-> "Retrieving", trace |-> <<"Retrieving">>, calls |-> NoCalls,
                  inst |-> inst, query |-> query, debug |-> debug]
    /\ UNCHANGED storeVars

\* retrieved_docs = self.retrieve_relevant_content(query)
Retrieve ==
    /\ run.stage = "Retrieving"
    /\ \E embFail \in BOOLEAN, queryFail \in BOOLEAN :
          LET r == retrieve_relevant_content(run.inst, run.query, DefaultNResults,
                                             embFail, queryFail)
              a == Advance(r.val = <<>>)
          IN run' = [stage |-> IF r.raised THEN "Raised" ELSE a.stage, trace |-> a.trace,
                     calls |-> [run.calls EXCEPT !.retrieve = @ + 1],
                     inst |-> run.inst, query |-> run.query, debug |-> run.debug,
                     retrieved |-> r.val]
    /\ UNCHANGED storeVars

\* context, citations = self.format_context(retrieved_docs)
Assemble ==
    /\ run.stage = "Assembling"
    /\ LET f == format_context(run.retrieved)
           a == Advance(FALSE)
       IN run' = [stage |-> IF f.raised THEN "Raised" ELSE a.stage, trace |-> a.trace,
                  calls |-> [run.calls EXCEPT !.assemble = @ + 1],
                  inst |-> run.inst, query |-> run.query, debug |-> run.debug,
                  retrieved |-> run.retrieved,
                  context |-> f.val[1], citations |-> f.val[2]]
    /\ UNCHANGED storeVars

\* response = self.generate_response(query, context)
Generate ==
    /\ run.stage = "Generating"
    /\ \E genFail \in BOOLEAN :
        \E err \in (IF genFail THEN GenErrors ELSE {"none"}) :
          LET g == generate_response(run.query, run.context, genFail, err)
              a == Advance(genFail)
          IN run' = [stage |-> IF g.raised THEN "Raised" ELSE a.stage, trace |-> a.trace,
                     calls |-> [run.calls EXCEPT !.generate = @ + 1],
                     inst |-> run.inst, query |-> run.query, debug |-> run.debug,
                     retrieved |-> run.retrieved,
                     context |-> run.context, citations |-> run.citations,
                     genFail |-> genFail, err |-> err, response |-> g.val]
    /\ UNCHANGED storeVars

\* result = {...}; if debug: result.update({...}); return result
Package ==
    /\ run.stage = "Done"
    /\ LET result == [query |-> run.query, response |-> run.response,
                      sources_used |-> Len(run.retrieved), citations |-> run.citations]
           full == [query |-> run.query, response |-> run.response,
                    sources_used |-> Len(run.retrieved), citations |-> run.citations,
                    retrieved_documents |-> run.retrieved, context |-> run.context]
       IN last' = [op |-> "ask", inst |-> run.inst, query |-> run.query,
                   debug |-> run.debug, genFail |-> run.genFail, err |-> run.err,
                   raised |-> FALSE, trace |-> run.trace, calls |-> run.calls,
                   ret |-> IF run.debug THEN full ELSE result]
    /\ run' = [stage |-> Advance(FALSE).stage, trace |-> <<>>, calls |-> NoCalls]
    /\ UNCHANGED <<live, handle, recs>>

\* asks of the serving application, stage by stage, over an index the build
\* script may clear between two stages
StagesNext ==
    /\ \/ \E inst \in Insts : AskCall(inst)
       \/ Retrieve
       \/ Assemble
       \/ Generate
       \/ Package
       \/ ClearCollection(Builder) /\ UNCHANGED askVars
    /\ UNCHANGED embedVars
    /\ UNCHANGED chunkVars
    /\ UNCHANGED buildVars
    /\ UNCHANGED ingestVars

(***************************************************************************)
(* get_embeddings on its own: the inputs are drawn at Init, the call is    *)
(* one action.  Text i of the list is a distinct string.                   *)
(***************************************************************************)
MaxBatches == (MaxTexts + BatchSize - 1) \div BatchSize

EmbedIdle ==
    /\ eTexts = <<>>
    /\ eFail = {}
    /\ eOut = [raised |-> FALSE, val |-> <<>>]
    /\ ePc = "idle"

EmbedInit ==
    /\ eTexts \in { [i \in 1..n |-> Text(i, 10, FALSE, 0)] : n \in 0..MaxTexts }
    /\ eFail \in SUBSET (1..MaxBatches)
    /\ eOut = [raised |-> FALSE, val |-> <<>>]
    /\ ePc = "start"

GetEmbeddings ==
    /\ ePc = "start"
    /\ eOut' = get_embeddings(eTexts, eFail)
    /\ ePc' = "done"
    /\ UNCHANGED <<eTexts, eFail>>

EmbedNext ==
    /\ GetEmbeddings
    /\ UNCHANGED storeVars
    /\ UNCHANGED chunkVars
    /\ UNCHANGED askVars
    /\ UNCHANGED buildVars
    /\ UNCHANGED ingestVars

(***************************************************************************)
(* Chunker: DocumentProcessor.split_into_chunks                            *)
(*                                                                         *)
(* A string is a sequence of atoms separated by single spaces: words       *)
(* (t = "w"), newlines (t = "nl") and the pieces of the header.  A word    *)
(* carries the sentence s and position k it comes from, its token weight   *)
(* and whether it is a number.  A raw document is a sequence of sentences, *)
(* each ended by a full stop and described by a shape: n words of ch       *)
(* characters and tok tokens each; art marks a sentence that consists of a *)
(* navigation artifact ("Menu") only.                                      *)
(***************************************************************************)
Shape(n, tok, ch, num, art) == [n |-> n, tok |-> tok, ch |-> ch, num |-> num, art |-> art]

Shapes == { Shape(1, 1, 3, FALSE, FALSE),      \* one short word
            Shape(3, 10, 15, FALSE, FALSE),    \* a short sentence, 47 characters, 30 tokens
            Shape(25, 8, 6, FALSE, FALSE),     \* a long sentence, 200 tokens
            Shape(25, 12, 9, FALSE, FALSE),    \* a longer sentence, 300 tokens
            Shape(2, 300, 900, FALSE, FALSE),  \* a sentence over the budget, 600 tokens
            Shape(2, 1, 3, TRUE, FALSE),       \* two numbers
            Shape(1, 1, 4, FALSE, TRUE) }      \* "Menu"

Titles == { "", "T" }
Urls == { "", "U" }

NL == [t |-> "nl"]

SentenceWords(text, i) ==
    [k \in 1..text[i].n |-> [t |-> "w", s |-> i, k |-> k, tok |-> text[i].tok, num |-> text[i].num]]

\* DocumentProcessor.clean_hebrew_text: whitespace runs become one space and
\* the artifact words are deleted; chars is the length left of each sentence
clean_hebrew_text(text) ==
    [i \in 1..Len(text) |->
        IF text[i].art THEN [words |-> <<>>, chars |-> 0]
        ELSE [words |-> SentenceWords(text, i),
              chars |-> text[i].n * text[i].ch + (text[i].n - 1)]]

RECURSIVE SumChars(_, _)
SumChars(cleaned, i) ==
    IF i > Len(cleaned) THEN 0 ELSE cleaned[i].chars + 1 + SumChars(cleaned, i + 1)

\* len(text.strip()) of the cleaned text: every sentence keeps its full stop
\* and is followed by one space, except the last
TextLen(cleaned) ==
    IF cleaned = <<>> THEN 0 ELSE SumChars(cleaned, 1) + (Len(cleaned) - 1)

\* re.split(r'[.!?...]', text), strip, drop the empty pieces
split_sentences(cleaned) ==
    LET kept == SelectSeq(cleaned, LAMBDA c : c.words # <<>>)
    IN [i \in 1..Len(kept) |-> kept[i].words]

\* the context header: title line, source line, blank line
context_header(title, url) ==
    (IF title # "" THEN << [t |-> "title_label", tok |-> 3], [t |-> "title", tok |-> 2], NL >>
     ELSE <<>>)
    \o (IF url # "" THEN << [t |-> "url_label", tok |-> 3], [t |-> "url", tok |-> 7], NL >>
        ELSE <<>>)
    \o << NL >>

RECURSIVE TokensFrom(_, _)
TokensFrom(atoms, i) ==
    IF i > Len(atoms) THEN 0
    ELSE (IF atoms[i].t = "nl"
          THEN (IF i > 1 /\ atoms[i - 1].t = "nl" THEN 0 ELSE 1)
          ELSE IF atoms[i].t = "w"
               THEN atoms[i].tok + (IF atoms[i].num /\ i > 1 THEN 1 ELSE 0)
               ELSE atoms[i].tok)
         + TokensFrom(atoms, i + 1)

\* DocumentProcessor.count_tokens: len(self.encoding.encode(text)) for the
\* cl100k_base encoding of gpt-3.5-turbo.  A word costs its own tokens and
\* takes the space before it into its first token; a number does not, the
\* space before it is a token of its own; a run of newlines is one token.
count_tokens(atoms) == TokensFrom(atoms, 1)

RECURSIVE LStrip(_)
LStrip(atoms) ==
    IF atoms # <<>> /\ Head(atoms).t = "nl" THEN LStrip(Tail(atoms)) ELSE atoms

RECURSIVE RStrip(_)
RStrip(atoms) ==
    IF atoms # <<>> /\ atoms[Len(atoms)].t = "nl"
    THEN RStrip(SubSeq(atoms, 1, Len(atoms) - 1)) ELSE atoms

\* str.strip()
strip(atoms) == RStrip(LStrip(atoms))

\* words[-20:] if len(words) > 20 else words
overlap_words(words) ==
    IF Len(words) > OverlapWords
    THEN SubSeq(words, Len(words) - OverlapWords + 1, Len(words))
    ELSE words

\* a variant that cuts the sentence to the words the overlap leaves room for
seed_chunk_truncated(current_chunk, sentence) ==
    overlap_words(current_chunk)
        \o SubSeq(sentence, 1, Min(Len(sentence), OverlapWords - Len(overlap_words(current_chunk)) + 1))

\* a variant that seeds the next chunk with the overlap only
seed_chunk_overlap_only(current_chunk, sentence) == overlap_words(current_chunk)

\* current_chunk = overlap_text + " " + sentence
seed_chunk(current_chunk, sentence) == overlap_words(current_chunk) \o sentence

\* a variant that puts the header and its tokens on every chunk
emit_chunk_header_always(chunks, current_chunk, current_tokens, ctx, title, url) ==
    Append(chunks,
           [content |-> strip(ctx \o current_chunk),
            tokens |-> current_tokens + count_tokens(ctx),
            title |-> title, url |-> url, chunk_id |-> Len(chunks)])

\* chunks.append({...}): the header and its tokens go to the first chunk only
emit_chunk(chunks, current_chunk, current_tokens, ctx, title, url) ==
    Append(chunks,
           [content |-> strip((IF chunks = <<>> THEN ctx ELSE <<>>) \o current_chunk),
            tokens |-> current_tokens + (IF chunks = <<>> THEN count_tokens(ctx) ELSE 0),
            title |-> title, url |-> url, chunk_id |-> Len(chunks)])

RECURSIVE chunk_loop(_, _, _, _, _, _, _, _)
\* for sentence in sentences: ... and the final "Add the last chunk"
chunk_loop(sentences, i, chunks, current_chunk, current_tokens, ctx, title, url) ==
    IF i > Len(sentences)
    THEN (IF current_chunk # <<>>
          THEN emit_chunk(chunks, current_chunk, current_tokens, ctx, title, url)
          ELSE chunks)
    ELSE LET sentence == sentences[i]
             sentence_tokens == count_tokens(sentence)
         IN IF current_tokens + sentence_tokens > max_chunk_size - count_tokens(ctx)
            THEN IF current_chunk # <<>>
                 THEN chunk_loop(sentences, i + 1,
                                 emit_chunk(chunks, current_chunk, current_tokens, ctx, title, url),
                                 seed_chunk(current_chunk, sentence),
                                 count_tokens(seed_chunk(current_chunk, sentence)),
                                 ctx, title, url)
                 ELSE chunk_loop(sentences, i + 1, chunks, sentence, sentence_tokens,
                                 ctx, title, url)
            ELSE chunk_loop(sentences, i + 1, chunks, current_chunk \o sentence,
                            current_tokens + sentence_tokens, ctx, title, url)

\* a variant of the length guard that lets short texts through
too_short_never(cleaned) == cleaned = <<>>

\* if not text or len(text.strip()) < 50
too_short(cleaned) == TextLen(cleaned) < MinTextLen

\* DocumentProcessor.split_into_chunks
split_into_chunks(text, title, url) ==
    LET cleaned == clean_hebrew_text(text)
    IN IF too_short(cleaned) THEN <<>>
       ELSE chunk_loop(split_sentences(cleaned), 1, <<>>, <<>>, 0,
                       context_header(title, url), title, url)

RECURSIVE SeqsUpTo(_, _)
\* all sequences over S of length at most n
SeqsUpTo(S, n) ==
    IF n = 0 THEN { <<>> }
    ELSE LET shorter == SeqsUpTo(S, n - 1)
         IN shorter \cup { Append(q, x) : q \in { r \in shorter : Len(r) = n - 1 }, x \in S }

ChunkIdle ==
    /\ dText = <<>>
    /\ dTitle = ""
    /\ dUrl = ""
    /\ dChunks = <<>>
    /\ dPc = "idle"

ChunkInit ==
    /\ dText \in SeqsUpTo(Shapes, MaxSentences)
    /\ dTitle \in Titles
    /\ dUrl \in Urls
    /\ dChunks = <<>>
    /\ dPc = "start"

SplitIntoChunks ==
    /\ dPc = "start"
    /\ dChunks' = split_into_chunks(dText, dTitle, dUrl)
    /\ dPc' = "done"
    /\ UNCHANGED <<dText, dTitle, dUrl>>

ChunkNext ==
    /\ SplitIntoChunks
    /\ UNCHANGED storeVars
    /\ UNCHANGED embedVars
    /\ UNCHANGED askVars
    /\ UNCHANGED buildVars
    /\ UNCHANGED ingestVars

(***************************************************************************)
(* Ingestion: document_processor.main and build_vector_store over the      *)
(* files of scraped_data/.  A file is missing, unreadable as JSON, or      *)
(* holds a list; the scraped file holds documents (content, title, url),   *)
(* the processed file holds what process_documents saved.  The content of  *)
(* a scraped document is its sentences as written: every sentence ends     *)
(* with its full stop and the artifact words are still there.              *)
(***************************************************************************)
MinDocLen == 100          \* len(content.strip()) < 100

Missing == [state |-> "missing", items |-> <<>>]

Malformed == [state |-> "malformed", items |-> <<>>]

ListFile(items) == [state |-> "list", items |-> items]

IngestIdle == fs = [raw |-> Missing, processed |-> Missing]

RawDoc(text, title, url) == [content |-> text, title |-> title, url |-> url]

\* a page of three sentences, a page of one short sentence, a page of one
\* long sentence
DocLong ==
    RawDoc(<< Shape(25, 8, 6, FALSE, FALSE), Shape(25, 12, 9, FALSE, FALSE),
              Shape(3, 10, 15, FALSE, FALSE) >>, "T", "U")

DocShort == RawDoc(<< Shape(3, 10, 15, FALSE, FALSE) >>, "T", "U")

DocOne == RawDoc(<< Shape(25, 8, 6, FALSE, FALSE) >>, "T", "U")

RawDocs == { DocLong, DocShort, DocOne }

RawLists == { <<>>, << DocShort >>, << DocLong >>, << DocOne, DocLong >> }

RECURSIVE RawChars(_, _)
RawChars(text, i) ==
    IF i > Len(text) THEN 0
    ELSE text[i].n * text[i].ch + (text[i].n - 1) + 1 + RawChars(text, i + 1)

\* len(content.strip()) of a scraped document
RawLen(text) == IF text = <<>> THEN 0 ELSE RawChars(text, 1) + (Len(text) - 1)

RECURSIVE process_from(_, _, _)
\* for doc in scraped_data: skip the short ones, all_chunks.extend(chunks)
process_from(docs, i, all_chunks) ==
    IF i > Len(docs) THEN all_chunks
    ELSE IF RawLen(docs[i].content) < MinDocLen
         THEN process_from(docs, i + 1, all_chunks)
         ELSE process_from(docs, i + 1,
                           all_chunks \o split_into_chunks(docs[i].content, docs[i].title,
                                                            docs[i].url))

\* DocumentProcessor.process_documents: the list save_chunks writes
process_documents(docs) == process_from(docs, 1, <<>>)

RECURSIVE raw_atoms(_, _)
\* the content of a scraped document as a string
raw_atoms(text, i) ==
    IF i > Len(text) THEN <<>>
    ELSE SentenceWords(text, i) \o << [t |-> "stop", tok |-> 1] >> \o raw_atoms(text, i + 1)

RECURSIVE RawWords(_, _)
RawWords(text, i) == IF i > Len(text) THEN 0 ELSE text[i].n + RawWords(text, i + 1)

\* f"כותרת: {item['title']}\nמקור: {item['url']}\n\n{content}"
raw_content(item) ==
    << [t |-> "title_label", tok |-> 3], [t |-> "title", tok |-> 2], NL,
       [t |-> "url_label", tok |-> 3], [t |-> "url", tok |-> 7], NL, NL >>
    \o raw_atoms(item.content, 1)

\* the conversion loop of build_vector_store: one chunk per scraped document
convert_scraped(data) ==
    [i \in 1..Len(data) |->
        [content |-> raw_content(data[i]), title |-> data[i].title, url |-> data[i].url,
         chunk_id |-> i - 1, tokens |-> (13 * RawWords(data[i].content, 1)) \div 10]]

\* a variant of the conversion that passes the scraped documents through
\* the chunker
convert_chunked(data) == process_documents(data)

\* chunk['content'] as handed to the embedding provider and to the index:
\* the string, identified to the provider by its token count
text_of(atoms) ==
    [id |-> count_tokens(atoms), len |-> Len(atoms), nl |-> FALSE, pad |-> 0, atoms |-> atoms]

\* the chunk list build_vector_store takes from the data it loaded
load_chunks(data) ==
    LET chunks == IF data # <<>> /\ "content" \in DOMAIN data[1]
                                 /\ "chunk_id" \notin DOMAIN data[1]
                  THEN convert_scraped(data)
                  ELSE data
    IN [i \in 1..Len(chunks) |-> [chunks[i] EXCEPT !.content = text_of(@)]]

\* the file build_vector_store opens: the scraped documents when they exist,
\* otherwise the processed chunks
chunks_file == IF fs.raw.state # "missing" THEN fs.raw ELSE fs.processed

\* build_vector_store; answer is the reply to "Clear and rebuild? (y/n)".
\* ret is what the caller gets: "None", "store", or "raised" when json.load
\* raises; val is <<live', handle[Builder]', recs'>>.  The store it opens
\* and clears is the builder's, whose handle names the live collection.
build_vector_store(answer) ==
    LET file == chunks_file
        same == <<live, handle[Builder], recs>>
    IN IF file.state = "missing"
       THEN [ret |-> "None", chunks |-> <<>>, val |-> same]
       ELSE IF file.state = "malformed"
       THEN [ret |-> "raised", chunks |-> <<>>, val |-> same]
       ELSE LET chunks == load_chunks(file.items)
                o == open_store(Builder)
                stats == Cardinality(o[3])
            IN IF stats > 0 /\ answer # "y"
               THEN [ret |-> "store", chunks |-> chunks, val |-> o]
               ELSE LET c == IF stats > 0 THEN clear_collection(Builder, FALSE, FALSE).val
                             ELSE o
                        texts == [i \in 1..Len(chunks) |-> chunks[i].content]
                        after == IF chunks = <<>> THEN c[3]
                                 ELSE add_from(c[3], Builder, chunk_ids(chunks),
                                               get_embeddings(texts, {}).val, texts,
                                               chunk_metadatas(chunks), 0, {})
                    IN [ret |-> "store", chunks |-> chunks, val |-> <<c[1], c[2], after>>]

\* step 3 of run_pipeline.main: a build that returned None, raised, or left
\* the collection empty is printed as failed
pipeline_step3(ret, coll) ==
    IF ret # "store" \/ Cardinality(coll) = 0 THEN "failed" ELSE "built"

IngestInit ==
    /\ live = 1
    /\ handle = [i \in Insts |-> 1]
    /\ recs = {}
    /\ last = [op |-> "init"]
    /\ fs \in [raw : {Missing, Malformed} \cup { ListFile(l) : l \in RawLists },
                processed : {Missing} \cup { ListFile(process_documents(l)) : l \in RawLists }]

\* scraper.main, step 1 of the pipeline: save_data writes the pages scraped
\* in this run, none when no page could be read
Scrape ==
    /\ last.op # "scrape"
    /\ \E pages \in RawLists : fs' = [fs EXCEPT !.raw = ListFile(pages)]
    /\ last' = [op |-> "scrape"]
    /\ UNCHANGED <<live, handle, recs>>

\* document_processor.main, step 2 of the pipeline
ProcessMain ==
    /\ last.op # "process"
    /\ IF fs.raw.state = "list"
       THEN fs' = [fs EXCEPT !.processed = ListFile(process_documents(fs.raw.items))]
       ELSE UNCHANGED fs
    /\ last' = [op |-> "process", ran |-> fs.raw.state = "list",
                raised |-> fs.raw.state = "malformed"]
    /\ UNCHANGED <<live, handle, recs>>

BuildVectorStore ==
    \E answer \in {"y", "n"} :
        LET r == build_vector_store(answer)
        IN /\ r.val[1] <= MaxClears + 1
           /\ live' = r.val[1]
           /\ handle' = [handle EXCEPT ![Builder] = r.val[2]]
           /\ recs' = r.val[3]
           /\ last' = [op |-> "build", answer |-> answer, ret |-> r.ret,
                       file |-> chunks_file, chunks |-> r.chunks, prior |-> recs,
                       step3 |-> pipeline_step3(r.ret, r.val[3])]
           /\ UNCHANGED fs

IngestNext ==
    /\ \/ Scrape
       \/ ProcessMain
       \/ BuildVectorStore
    /\ UNCHANGED embedVars
    /\ UNCHANGED chunkVars
    /\ UNCHANGED askVars
    /\ UNCHANGED buildVars

(***************************************************************************)
(* add_documents on chunk lists of more than one batch.  Two editions of   *)
(* the chunk list differ in every position; any embedding batch and any    *)
(* insert batch may fail.  last.prior is the collection before the call.   *)
(***************************************************************************)
Editions == { 0, 1 }

\* the sizes of the chunk lists: none, one more than a batch
BulkSizes == { 0, BatchSize + 1 }

BulkChunk(edition, i) == [IndexedChunk(i + edition) EXCEPT !.chunk_id = i - 1]

BulkLists ==
    { [i \in 1..n |-> BulkChunk(edition, i)] : n \in BulkSizes, edition \in Editions }

BulkAdd(inst) ==
    \E chunks \in BulkLists, embFailed \in {{}, {2}}, addFailed \in SUBSET {1, 2} :
        LET r == add_documents(inst, chunks, embFailed, addFailed)
        IN /\ recs' = r.val
           /\ last' = [op |-> "add_many", inst |-> inst, chunks |-> chunks,
                       embFailed |-> embFailed, addFailed |-> addFailed,
                       stale |-> handle[inst] # live,
                       raised |-> r.raised, embedCalls |-> r.embedCalls,
                       prior |-> recs]
           /\ UNCHANGED <<live, handle>>

BulkNext ==
    /\ \/ BulkAdd(Builder)
       \/ ClearCollection(Builder)
    /\ UNCHANGED embedVars
    /\ UNCHANGED chunkVars
    /\ UNCHANGED askVars
    /\ UNCHANGED buildVars
    /\ UNCHANGED ingestVars

(***************************************************************************)
(* Specifications                                                          *)
(***************************************************************************)
Init == StoreInit /\ EmbedIdle /\ ChunkIdle /\ AskIdle /\ BuildIdle /\ IngestIdle

Next == StoreNext

Spec == Init /\ [][Next]_vars

SpecAsk == Init /\ [][AskNext]_vars

InitServe == ServeInit /\ EmbedIdle /\ ChunkIdle /\ AskIdle /\ BuildIdle /\ IngestIdle

SpecServe == InitServe /\ [][ServeNext]_vars

SpecSearch == InitServe /\ [][SearchNext]_vars

SpecStages == InitServe /\ [][StagesNext]_vars

InitRebuild == RebuildInit /\ EmbedIdle /\ ChunkIdle /\ AskIdle /\ BuildIdle /\ IngestIdle

SpecRebuild == InitRebuild /\ [][RebuildNext]_vars

InitEmbed == StoreInit /\ EmbedInit /\ ChunkIdle /\ AskIdle /\ BuildIdle /\ IngestIdle

SpecEmbed == InitEmbed /\ [][EmbedNext]_vars

InitChunk == StoreInit /\ EmbedIdle /\ ChunkInit /\ AskIdle /\ BuildIdle /\ IngestIdle

SpecChunk == InitChunk /\ [][ChunkNext]_vars

SpecBulk == Init /\ [][BulkNext]_vars

InitIngest == IngestInit /\ EmbedIdle /\ ChunkIdle /\ AskIdle /\ BuildIdle

SpecIngest == InitIngest /\ [][IngestNext]_vars

(***************************************************************************)
(* Properties of the vector store and the orchestrator                     *)
(***************************************************************************)

\* C1: search returns the empty sequence, without raising, whenever the
\* query-embedding call or the index query fails.
C1_SearchFailureGivesEmpty ==
    (last.op = "search" /\ (last.embFail \/ last.queryFail))
        => (~last.raised /\ last.ret = <<>>)

\* What search was given by the retriever in the ask call recorded in last;
\* ask leaves the index as it is, so the retrieval can be replayed.
AskRetrieved ==
    search(last.inst, last.query, DefaultNResults, last.embFail, last.queryFail).val

\* C2: ask never raises; it returns a bundle whose query, sources_used and
\* citations reflect what retrieval returned, and when the generation call
\* fails the response is the apology with the error detail and the fallback.
C2_AskNeverRaises ==
    last.op = "ask" =>
        /\ ~last.raised
        /\ last.ret.query = last.query
        /\ last.ret.sources_used = Len(AskRetrieved)
        /\ Len(last.ret.citations) = Len(AskRetrieved)
        /\ \A i \in 1..Len(AskRetrieved) :
              /\ last.ret.citations[i].number = i
              /\ last.ret.citations[i].full_content = AskRetrieved[i].content
        /\ last.genFail =>
              last.ret.response = [kind |-> "apology", detail |-> last.err, fallback |-> TRUE]

\* C2 witness: generation failed after retrieval had found records
C2_Witness ==
    /\ last.op = "ask"
    /\ last.genFail
    /\ ~last.raised
    /\ last.ret.sources_used > 0
    /\ last.ret.response.kind = "apology"

\* C3: an add of the same n chunks as the add before it, with no clear in
\* between and no failure, makes total_documents grow by n again.
C3_ReAddGrowsByN ==
    (last.op = "add" /\ last.repeat /\ ~last.stale /\ ~last.addFail)
        => last.after = last.before + Len(last.chunks)

(***************************************************************************)
(* Properties of get_embeddings                                            *)
(***************************************************************************)
BatchOf(i) == ((i - 1) \div BatchSize) + 1

\* C4: get_embeddings returns exactly len(texts) vectors and never raises,
\* whichever batches fail.
C4_EmbedLength ==
    ePc = "done" => (~eOut.raised /\ Len(eOut.val) = Len(eTexts))

\* C4 witness: a call of several batches in which a batch failed
C4_Witness ==
    /\ ePc = "done"
    /\ Len(eTexts) > BatchSize
    /\ 1 \in eFail
    /\ Len(eOut.val) = Len(eTexts)

\* C5: result[i] is the provider's vector for texts[i] when the batch of 100
\* that holds i succeeded and the zero vector of 1536 entries when it failed;
\* the other batches are not affected.
C5_EmbedAlignment ==
    ePc = "done" =>
        \A i \in 1..Len(eTexts) :
            /\ i \in DOMAIN eOut.val
            /\ eOut.val[i] = IF BatchOf(i) \in eFail
                             THEN [dim |-> 1536, x |-> 0]
                             ELSE ProviderVector(eTexts[i])

\* C5 witness: the middle batch of three failed, the batches around it did not
C5_Witness ==
    /\ ePc = "done"
    /\ Len(eTexts) > 2 * BatchSize
    /\ eFail = {2}
    /\ eOut.val[BatchSize] # ZeroVector
    /\ eOut.val[BatchSize + 1] = ZeroVector
    /\ eOut.val[2 * BatchSize + 1] # ZeroVector

(***************************************************************************)
(* Properties of the chunker                                               *)
(***************************************************************************)
\* the sentence sequence of the cleaned document
DocSentences == split_sentences(clean_hebrew_text(dText))

DocLen == TextLen(clean_hebrew_text(dText))

RECURSIVE Flatten(_)
Flatten(seqs) == IF seqs = <<>> THEN <<>> ELSE Head(seqs) \o Flatten(Tail(seqs))

\* the words of a chunk's content, the header left out
Body(c) == SelectSeq(c.content, LAMBDA a : a.t = "w")

\* the trailing words of a body that the next chunk repeats
Trailing(words) == SubSeq(words, Len(words) - Min(20, Len(words)) + 1, Len(words))

\* the words of chunk i that follow its overlap prefix
NewWords(i) ==
    IF i = 1 THEN Body(dChunks[1])
    ELSE SubSeq(Body(dChunks[i]), Len(Trailing(Body(dChunks[i - 1]))) + 1, Len(Body(dChunks[i])))

RECURSIVE BodiesFrom(_)
BodiesFrom(i) == IF i > Len(dChunks) THEN <<>> ELSE NewWords(i) \o BodiesFrom(i + 1)

\* C6: for a document of at least 50 cleaned characters, the chunk bodies
\* without header and overlap prefix, concatenated in order, are exactly the
\* document's sentence sequence.
C6_Reconstruct ==
    (dPc = "done" /\ DocLen >= 50) => BodiesFrom(1) = Flatten(DocSentences)

\* C6 witness: a document cut into three chunks or more
C6_Witness ==
    /\ dPc = "done"
    /\ DocLen >= 50
    /\ Len(dChunks) >= 3
    /\ BodiesFrom(1) = Flatten(DocSentences)

\* chunk i + 1 starts with the trailing words of chunk i followed by a whole
\* sentence that comes after the sentences of chunk i
StartsWithOverlap(i) ==
    LET prev == Body(dChunks[i])
        nxt == Body(dChunks[i + 1])
        ov == Trailing(prev)
    IN /\ Len(nxt) > Len(ov)
       /\ SubSeq(nxt, 1, Len(ov)) = ov
       /\ LET w == nxt[Len(ov) + 1]
              sentence == SentenceWords(dText, w.s)
          IN /\ w.k = 1
             /\ w.s > prev[Len(prev)].s
             /\ Len(nxt) >= Len(ov) + Len(sentence)
             /\ SubSeq(nxt, Len(ov) + 1, Len(ov) + Len(sentence)) = sentence

\* C7: every chunk after the first starts with the trailing words of the
\* chunk before it (its last 20 words, or all of them) followed by the sentence
\* that triggered the overflow, and the overlap is never longer than the
\* configured overlap window (chunk_overlap tokens).
C7_OverlapWithinWindow ==
    dPc = "done" =>
        \A i \in 1..(Len(dChunks) - 1) :
            /\ StartsWithOverlap(i)
            /\ count_tokens(Trailing(Body(dChunks[i]))) <= chunk_overlap

RECURSIVE SumSentenceTokens(_)
SumSentenceTokens(S) ==
    IF S = {} THEN 0
    ELSE LET x == CHOOSE y \in S : TRUE
         IN count_tokens(SentenceWords(dText, x)) + SumSentenceTokens(S \ {x})

\* the tokens of chunk i that are not header tokens: the sentences it
\* accumulated, and for a later chunk the string it was seeded with
BodyTokens(i) ==
    LET new == NewWords(i)
        ids == { new[j].s : j \in 1..Len(new) }
    IN IF i = 1 THEN SumSentenceTokens(ids)
       ELSE LET first == new[1].s
                ov == Len(Trailing(Body(dChunks[i - 1])))
            IN count_tokens(SubSeq(Body(dChunks[i]), 1, ov + dText[first].n))
               + SumSentenceTokens(ids \ {first})

\* C8: the header is prefixed to the content of chunk 0 only and its tokens
\* are added to the token count of chunk 0 only.
C8_HeaderOnlyFirst ==
    dPc = "done" =>
        \A i \in 1..Len(dChunks) :
            IF i = 1
            THEN /\ dChunks[i].content = strip(context_header(dTitle, dUrl) \o Body(dChunks[i]))
                 /\ dChunks[i].tokens = BodyTokens(i) + count_tokens(context_header(dTitle, dUrl))
            ELSE /\ dChunks[i].content = Body(dChunks[i])
                 /\ dChunks[i].tokens = BodyTokens(i)

\* C8 witness: a titled document of two chunks or more
C8_Witness ==
    /\ dPc = "done"
    /\ dTitle # ""
    /\ Len(dChunks) >= 2
    /\ dChunks[1].content # Body(dChunks[1])
    /\ dChunks[2].content = Body(dChunks[2])

\* C9: the token count of every chunk equals the tokenizer's count of the
\* chunk's content string.
C9_TokenCountExact ==
    dPc = "done" =>
        \A i \in 1..Len(dChunks) : dChunks[i].tokens = count_tokens(dChunks[i].content)

\* C10: a document whose cleaned text is shorter than 50 characters yields
\* the empty sequence, whatever the title and url.
C10_ShortYieldsEmpty ==
    (dPc = "done" /\ DocLen < 50) => dChunks = <<>>

\* C10 witness: a short document that has sentences, a title and a url
C10_Witness ==
    /\ dPc = "done"
    /\ DocLen < 50
    /\ DocSentences # <<>>
    /\ dTitle # ""
    /\ dUrl # ""
    /\ dChunks = <<>>

(***************************************************************************)
(* Properties of the context assembler and of the bundle ask returns       *)
(***************************************************************************)

\* C11: format_context of an empty result list returns the fixed non-empty
\* sentinel string with an empty citation list, and for a non-empty result
\* list the context it returns is never the sentinel.
C11_SentinelOnlyWhenEmpty ==
    (last.op = "ask" /\ last.debug) =>
        /\ Sentinel.chars > 0
        /\ last.ret.retrieved_documents = <<>> =>
              /\ last.ret.context = Sentinel
              /\ last.ret.citations = <<>>
        /\ last.ret.retrieved_documents # <<>> =>
              /\ last.ret.context # Sentinel
              /\ Len(last.ret.context.entries) = Len(last.ret.retrieved_documents)

\* C11 witness: one ask assembled an empty result list, over an index that
\* holds records
C11_Witness ==
    /\ last.op = "ask"
    /\ last.debug
    /\ recs # {}
    /\ last.ret.retrieved_documents = <<>>
    /\ last.ret.context = Sentinel

\* C12: for n retrieved results format_context returns exactly n citations,
\* numbered 1..n in the order of the results, and citation i carries the
\* title, url, score and full content of result i.
C12_CitationsFollowResults ==
    (last.op = "ask" /\ last.debug) =>
        /\ Len(last.ret.citations) = Len(last.ret.retrieved_documents)
        /\ \A i \in 1..Len(last.ret.retrieved_documents) :
              /\ last.ret.citations[i].number = i
              /\ last.ret.citations[i].title = last.ret.retrieved_documents[i].metadata.title
              /\ last.ret.citations[i].url = last.ret.retrieved_documents[i].metadata.url
              /\ last.ret.citations[i].score = last.ret.retrieved_documents[i].relevance_score
              /\ last.ret.citations[i].full_content = last.ret.retrieved_documents[i].content

\* C12 witness: five results with different titles, the nearest of which is
\* not the first chunk of the index
C12_Witness ==
    /\ last.op = "ask"
    /\ last.debug
    /\ Len(last.ret.retrieved_documents) = DefaultNResults
    /\ last.ret.retrieved_documents[1].metadata.chunk_id # 0
    /\ last.ret.citations[1].title # last.ret.citations[2].title
    /\ last.ret.citations[2].score # last.ret.citations[5].score

\* excerpt e is the string c itself, character for character
Verbatim(e, c) ==
    /\ e.of = c.id
    /\ ~e.flattened
    /\ e.stripped = 0
    /\ ~e.ellipsis
    /\ e.chars = c.len

\* C13 as stated: the excerpt of every citation whose full_content has at
\* most 150 characters is that content verbatim, newlines and surrounding
\* whitespace included.
C13_ShortExcerptVerbatim ==
    last.op = "ask" =>
        \A i \in 1..Len(last.ret.citations) :
            last.ret.citations[i].full_content.len <= 150 =>
                Verbatim(last.ret.citations[i].excerpt, last.ret.citations[i].full_content)

\* C13 amended: the excerpt of every citation whose full_content has at most
\* 150 characters is that content with each newline replaced by a space and
\* the leading and trailing whitespace removed, without an ellipsis; it is
\* the content verbatim when the content has no newline and no leading or
\* trailing whitespace.
C13_ShortExcerptFlattened ==
    last.op = "ask" =>
        \A i \in 1..Len(last.ret.citations) :
            LET c == last.ret.citations[i].full_content
                e == last.ret.citations[i].excerpt
            IN c.len <= 150 =>
                /\ e.of = c.id
                /\ e.flattened = c.nl
                /\ e.stripped = c.pad
                /\ e.chars = c.len - c.pad
                /\ ~e.ellipsis
                /\ (~c.nl /\ c.pad = 0) => Verbatim(e, c)

\* C13 witness: one citation list holds a short content cited verbatim, a
\* short content with a newline and a short content with surrounding
\* whitespace
C13_Witness ==
    /\ last.op = "ask"
    /\ \E i, j, k \in 1..Len(last.ret.citations) :
          /\ last.ret.citations[i].full_content.len <= 150
          /\ Verbatim(last.ret.citations[i].excerpt, last.ret.citations[i].full_content)
          /\ last.ret.citations[j].full_content.len <= 150
          /\ last.ret.citations[j].full_content.nl
          /\ last.ret.citations[j].excerpt.flattened
          /\ last.ret.citations[k].full_content.len <= 150
          /\ last.ret.citations[k].full_content.pad > 0
          /\ last.ret.citations[k].excerpt.chars < last.ret.citations[k].full_content.len

\* C14: the excerpt of every citation has at most 153 characters: it is
\* either the flattened content, of at most 150 characters, or the first 150
\* characters of the flattened content followed by the three-character
\* ellipsis marker.
C14_ExcerptLength ==
    last.op = "ask" =>
        \A i \in 1..Len(last.ret.citations) :
            LET c == last.ret.citations[i].full_content
                e == last.ret.citations[i].excerpt
            IN /\ e.chars <= 153
               /\ e.ellipsis => (e.chars = 150 + 3 /\ c.len - c.pad > 150)
               /\ ~e.ellipsis => (e.chars = c.len - c.pad /\ e.chars <= 150)

\* C14 witness: one citation list holds an excerpt of exactly 150 characters
\* without the marker, one cut from 151 characters and one cut from more
C14_Witness ==
    /\ last.op = "ask"
    /\ \E i, j, k \in 1..Len(last.ret.citations) :
          /\ last.ret.citations[i].excerpt.chars = 150
          /\ ~last.ret.citations[i].excerpt.ellipsis
          /\ last.ret.citations[j].full_content.len = 151
          /\ last.ret.citations[j].excerpt.ellipsis
          /\ last.ret.citations[k].full_content.len > 151
          /\ last.ret.citations[k].excerpt.chars = 153

\* C15: in every bundle ask returns, sources_used is the number of results
\* retrieved, equals the length of citations and is at most 5; query is the
\* query passed in; the bundle carries the retrieved results and the context
\* exactly when debug was requested.
C15_BundleShape ==
    last.op = "ask" =>
        /\ ~last.raised
        /\ last.ret.query = last.query
        /\ last.ret.sources_used = Len(last.ret.citations)
        /\ last.ret.sources_used <= 5
        /\ last.ret.sources_used =
              (IF handle[last.inst] # live \/ last.queryFail THEN 0
               ELSE Min(DefaultNResults, Cardinality(recs)))
        /\ ("retrieved_documents" \in DOMAIN last.ret) <=> last.debug
        /\ ("context" \in DOMAIN last.ret) <=> last.debug
        /\ last.debug => Len(last.ret.retrieved_documents) = last.ret.sources_used

\* C15 witness: a bundle without the debug fields, returned over an index of
\* more than five records, that reports five sources
C15_Witness ==
    /\ last.op = "ask"
    /\ ~last.debug
    /\ Cardinality(recs) > 5
    /\ last.ret.sources_used = 5
    /\ Len(last.ret.citations) = 5
    /\ DOMAIN last.ret = {"query", "response", "sources_used", "citations"}

\* C16: ask over an index that holds no documents returns citations = [] and
\* sources_used = 0, and its response is what the generation step makes of
\* the query with the sentinel as context.
C16_EmptyIndexAsk ==
    (last.op = "ask" /\ recs = {}) =>
        /\ ~last.raised
        /\ last.ret.citations = <<>>
        /\ last.ret.sources_used = 0
        /\ last.debug => last.ret.context = Sentinel
        /\ last.ret.response =
              (IF last.genFail
               THEN [kind |-> "apology", detail |-> last.err, fallback |-> TRUE]
               ELSE [kind |-> "completion", query |-> last.query, context |-> Sentinel])

\* C16 witness: an ask without any failure, through a handle on the live
\* collection, which is empty
C16_Witness ==
    /\ last.op = "ask"
    /\ recs = {}
    /\ handle[last.inst] = live
    /\ ~last.embFail /\ ~last.queryFail /\ ~last.genFail
    /\ last.ret.sources_used = 0
    /\ last.ret.response.kind = "completion"
    /\ last.ret.response.context = Sentinel

\* C17: every ask goes through Retrieving, Assembling, Generating and Done in
\* that order, each once: one call of the retriever, one of the assembler on
\* what the retriever returned, one of the generation step on the context the
\* assembler built; no stage is repeated or skipped, whether retrieval found
\* nothing or generation failed.
C17_StagesOnceInOrder ==
    /\ run.stage # "Raised"
    /\ run.trace = SubSeq(Stages, 1, Len(run.trace))
    /\ run.stage = (IF run.trace = <<>> THEN "Idle" ELSE run.trace[Len(run.trace)])
    /\ run.calls = [retrieve |-> IF Len(run.trace) >= 2 THEN 1 ELSE 0,
                    assemble |-> IF Len(run.trace) >= 3 THEN 1 ELSE 0,
                    generate |-> IF Len(run.trace) >= 4 THEN 1 ELSE 0]
    /\ Len(run.trace) >= 3 =>
          /\ Len(run.citations) = Len(run.retrieved)
          /\ \A i \in 1..Len(run.retrieved) :
                run.citations[i].full_content = run.retrieved[i].content
          /\ (run.context = Sentinel) <=> (run.retrieved = <<>>)
    /\ Len(run.trace) >= 4 =>
          run.response =
              (IF run.genFail
               THEN [kind |-> "apology", detail |-> run.err, fallback |-> TRUE]
               ELSE [kind |-> "completion", query |-> run.query, context |-> run.context])
    /\ last.op = "ask" =>
          /\ last.trace = Stages
          /\ last.calls = [retrieve |-> 1, assemble |-> 1, generate |-> 1]

\* C17 witness: an ask has returned whose retrieval found nothing and whose
\* generation call failed
C17_Witness ==
    /\ last.op = "ask"
    /\ last.genFail
    /\ last.ret.sources_used = 0
    /\ last.ret.response.kind = "apology"
    /\ last.trace = Stages
    /\ run.stage = "Idle"

\* C18: get_system_stats returns the document count and the collection name
\* that get_collection_stats reports (the count of the live collection, or 0
\* when the count call fails), and system_status, which is "ready" exactly
\* when that count is above 0 and "needs_data" otherwise; the call leaves the
\* index as it was.
C18_SystemStats ==
    /\ [](last.op = "system_stats" =>
            LET total == IF handle[last.inst] # live \/ last.fails THEN 0
                         ELSE Cardinality(recs)
            IN /\ ~last.raised
               /\ DOMAIN last.ret = {"vector_store_documents", "collection_name",
                                     "system_status"}
               /\ last.ret.vector_store_documents = total
               /\ last.ret.collection_name = "assuta_oncology"
               /\ last.ret.system_status \in {"ready", "needs_data"}
               /\ (last.ret.system_status = "ready") <=> (total > 0))
    /\ [][last'.op = "system_stats" => UNCHANGED <<live, handle, recs>>]_vars

\* C18 witness: the call has reported a filled index as ready
C18_Witness ==
    /\ last.op = "system_stats"
    /\ last.ret.system_status = "ready"
    /\ last.ret.vector_store_documents = Cardinality(recs)
    /\ Cardinality(recs) > 1

C20_ClearThenAddExact ==
    (last.op = "add" /\ last.afterClear /\ ~last.embFail /\ ~last.addFail) =>
        /\ ~last.raised
        /\ live # 0
        /\ handle[last.inst] = live
        /\ get_collection_stats(last.inst, FALSE).val.collection_name = "assuta_oncology"
        /\ Cardinality(recs) = Len(last.chunks)
        /\ \A i \in 1..Len(last.chunks) :
              [id |-> <<"chunk", i - 1>>,
               embedding |-> ProviderVector(last.chunks[i].content),
               document |-> last.chunks[i].content,
               metadata |-> [title |-> last.chunks[i].title, url |-> last.chunks[i].url,
                             chunk_id |-> last.chunks[i].chunk_id,
                             tokens |-> last.chunks[i].tokens]] \in recs

\* C20 witness: an index of two records was cleared and one chunk added
C20_Witness ==
    /\ last.op = "add"
    /\ last.afterClear
    /\ ~last.embFail /\ ~last.addFail
    /\ last.clearedFrom = 2
    /\ Len(last.chunks) = 1
    /\ Cardinality(recs) = 1

(***************************************************************************)
(* Properties of retrieval, ingestion and the chunk budget                 *)
(***************************************************************************)

\* the embedding search queried the index with
QueryVector == IF last.embFail THEN ZeroVector ELSE ProviderVector(last.query)

\* C21: search(query, k) returns at most k results and at most as many as
\* the index holds, nearest first by non-decreasing distance, each with its
\* distance and relevance_score = 1 - distance; no record left out is nearer
\* than one returned; retrieve_relevant_content(query, n) returns what
\* search(query, n) returns.
C21_SearchOrdered ==
    (last.op \in {"search", "retrieve"}) =>
        /\ ~last.raised
        /\ Len(last.ret) <= last.k
        /\ Len(last.ret) <= Cardinality(recs)
        /\ \A i \in 1..Len(last.ret) :
              /\ last.ret[i].relevance_score = 1 - last.ret[i].distance
              /\ \E r \in recs : /\ r.metadata = last.ret[i].metadata
                                  /\ r.document = last.ret[i].content
                                  /\ last.ret[i].distance = Distance(r.embedding, QueryVector)
              /\ \A j \in i..Len(last.ret) : last.ret[i].distance <= last.ret[j].distance
        /\ \A r \in recs :
              \/ last.ret = <<>>
              \/ \E i \in 1..Len(last.ret) : r.metadata = last.ret[i].metadata
              \/ Distance(r.embedding, QueryVector) >= last.ret[Len(last.ret)].distance
        /\ last.op = "retrieve" =>
              last.ret = search(last.inst, last.query, last.k,
                                last.embFail, last.queryFail).val

\* C21 witness: the retriever returned five of more than five records, the
\* first nearer than the last
C21_Witness ==
    /\ last.op = "retrieve"
    /\ last.k = DefaultNResults
    /\ Cardinality(recs) > DefaultNResults
    /\ Len(last.ret) = DefaultNResults
    /\ last.ret[1].distance < last.ret[DefaultNResults].distance
    /\ last.ret[1].metadata.chunk_id # 0

\* C22: the relevance_score of every result search returns lies in the
\* closed range from 0 to 1.
C22_ScoreNormalized ==
    (last.op \in {"search", "retrieve"}) =>
        \A i \in 1..Len(last.ret) :
            /\ 0 <= last.ret[i].relevance_score
            /\ last.ret[i].relevance_score <= 1

\* current_tokens when chunk i was appended: its token count without the
\* header tokens that chunk 0 adds
ClosingTokens(i) ==
    dChunks[i].tokens - (IF i = 1 THEN count_tokens(context_header(dTitle, dUrl)) ELSE 0)

\* the tokens of the sentence that closed chunk i - 1 and started chunk i
TriggerTokens(i) == count_tokens(SentenceWords(dText, NewWords(i)[1].s))

\* C25: a chunk is closed only when the next sentence would take it over the
\* threshold, which is max_chunk_size minus the header tokens for the first
\* chunk of the document and the full max_chunk_size for every later chunk.
C25_HeaderReservedFirstOnly ==
    dPc = "done" =>
        \A i \in 1..(Len(dChunks) - 1) :
            ClosingTokens(i) + TriggerTokens(i + 1) >
                max_chunk_size - (IF i = 1 THEN count_tokens(context_header(dTitle, dUrl)) ELSE 0)

\* the sentences of the document that alone exceed the chunk budget
Oversized ==
    { x \in 1..Len(dText) :
        /\ ~dText[x].art
        /\ count_tokens(SentenceWords(dText, x)) >
              max_chunk_size - count_tokens(context_header(dTitle, dUrl)) }

\* C26 as stated: every sentence over the chunk budget is the whole body of
\* one chunk, wherever it stands in the document: the chunk holds the
\* sentence in full and no word of any other sentence.
C26_OversizedAlone ==
    dPc = "done" =>
        \A x \in Oversized :
            \E i \in 1..Len(dChunks) : Body(dChunks[i]) = SentenceWords(dText, x)

\* C26 amended: every sentence over the chunk budget is, in full, the only
\* sentence newly placed in its chunk: the body of that chunk is the sentence
\* itself when it is the first chunk, and otherwise the overlap words repeated
\* from the chunk before it followed by the whole sentence.
C26_OversizedWhole ==
    dPc = "done" =>
        \A x \in Oversized :
            \E i \in 1..Len(dChunks) :
                /\ NewWords(i) = SentenceWords(dText, x)
                /\ Body(dChunks[i]) =
                      (IF i = 1 THEN <<>> ELSE Trailing(Body(dChunks[i - 1])))
                          \o SentenceWords(dText, x)

\* C26 witness: an oversized sentence in the middle of a document, in a chunk
\* that starts with words of the sentence before it
C26_Witness ==
    /\ dPc = "done"
    /\ Len(dChunks) >= 3
    /\ \E x \in Oversized :
          /\ NewWords(2) = SentenceWords(dText, x)
          /\ Body(dChunks[2]) # SentenceWords(dText, x)
          /\ x < Len(dText)

\* C28: when every sentence of a document fits the chunk budget on its own,
\* every chunk of the document has at most max_chunk_size tokens, including
\* the chunks seeded with overlap words and the sentence that overflowed.
C28_ChunksWithinBudget ==
    (dPc = "done" /\ Oversized = {}) =>
        \A i \in 1..Len(dChunks) : dChunks[i].tokens <= max_chunk_size

\* the records of a collection that carry the id given to chunks[i]
WithId(coll, i) == { r \in coll : r.id = <<"chunk", i - 1>> }

\* the vector get_embeddings returns for position i of the call in last
EmbeddingAt(i) ==
    IF BatchOf(i) \in last.embFailed THEN ZeroVector
    ELSE ProviderVector(last.chunks[i].content)

\* C27: after an add of n chunks whose inserts did not fail, the record
\* chunk_i, for every i below n, holds the content and the metadata of
\* chunks[i] and the embedding computed for chunks[i].content, in every
\* insert batch and also when an embedding batch failed.
C27_RecordsAligned ==
    (last.op = "add_many" /\ ~last.stale /\ last.addFailed = {}) =>
        \A i \in 1..Len(last.chunks) :
            WithId(recs, i) =
                { [id |-> <<"chunk", i - 1>>,
                   embedding |-> EmbeddingAt(i),
                   document |-> last.chunks[i].content,
                   metadata |-> chunk_metadatas(last.chunks)[i]] }

\* whether the insert of batch b failed in the call in last
BatchFailed(b) == last.stale \/ b \in last.addFailed

C29_WindowCloses ==
    (last.op = "search" /\ job.pc = "idle" /\ recs # {}
        /\ ~last.embFail /\ ~last.queryFail) =>
        /\ last.ret # <<>>
        /\ \A i \in 1..Len(last.ret) :
              \E r \in recs : r.document = last.ret[i].content

\* the chunk contents the chunker produces from the scraped documents
ChunkerContents ==
    UNION { { text_of(split_into_chunks(doc.content, doc.title, doc.url)[i].content)
              : i \in 1..Len(split_into_chunks(doc.content, doc.title, doc.url)) }
            : doc \in RawDocs }

\* C23: every record a build inserts holds a chunk the chunker produced,
\* whichever of the two files exist.
C23_OnlyChunkerOutput ==
    last.op = "build" =>
        \A r \in recs \ last.prior : r.document \in ChunkerContents

\* C24: a build whose input file is missing, unreadable, or holds no chunk
\* is reported as failed, inserts nothing and leaves the index as it was.
C24_NoInputFails ==
    (last.op = "build" /\ (last.file.state # "list" \/ last.chunks = <<>>)) =>
        /\ last.ret # "store" \/ last.step3 = "failed"
        /\ recs = last.prior

====
